---- MODULE Spec2Model ----
(***************************************************************************)
(* Model of src-tauri/src/lib.rs: the open_ticket_window command, run as   *)
(* independent asynchronous tasks against the windowing host's shared,     *)
(* process-wide window set.                                                *)
(*                                                                         *)
(* The host (find window by label, set focus, build window) is outside the *)
(* repository.  It is modelled by its interface only: every set_focus and  *)
(* every build either succeeds or fails with a diagnostic, chosen          *)
(* nondeterministically; the host adds no serialization between the        *)
(* command's lookup and its focus-or-build call, nor between that call and *)
(* the command's return.                                                   *)
(***************************************************************************)
EXTENDS Integers, Sequences, FiniteSets, TLC

VARIABLES
    windows,        \* the host's live window set (records, see NewWindow)
    focused,        \* handle of the foreground window, NoWindow if none
    creator,        \* creator[h] = ticket id whose invocation built handle h
    pc,             \* pc[t]: position of task t in open_ticket_window:
                    \* "idle", "lookup", "focus", "build", "return", "done"
    ticket_id,      \* ticket_id[t]: the argument of task t's invocation
    window_label,   \* window_label[t]: the local of line 11
    window,         \* window[t]: the Option bound at line 14 ({} or {w})
    result,         \* result[t]: the returned Result ({} until it returns)
    calls,          \* calls[t]: the window-affecting host calls issued by
                    \* the current invocation, with the host's answers
    invocations,    \* number of invocations started so far
    greetings,      \* the greet calls answered so far: [name, out] records
    after_failure   \* after_failure[t]: when t's invocation started, some
                    \* invocation had returned a failure (history)

vars == <<windows, focused, creator, pc, ticket_id, window_label, window,
          result, calls, invocations, greetings, after_failure>>

(***************************** bounds ***************************************)
NumTasks == 2
MaxInvocations == 3
MaxGreets == 2
GreetInvocations == 1
FairInvocations == 2

Tasks == 1..NumTasks

(* Ticket ids are u32 values, kept as <<high 16 bits, low 16 bits>>.       *)
U32_MAX == <<65535, 65535>>
TicketIds == { <<0, 0>>, <<0, 42>>, <<1, 42>>, U32_MAX }

(* Diagnostics the host may attach to a failed focus or build request.     *)
Diagnostics == { "E", "window is not focusable" }

NoWindow == 0

(************************* decimal formatting *******************************)
Digit(d) ==
    CASE d = 0 -> "0" [] d = 1 -> "1" [] d = 2 -> "2" [] d = 3 -> "3"
      [] d = 4 -> "4" [] d = 5 -> "5" [] d = 6 -> "6" [] d = 7 -> "7"
      [] d = 8 -> "8" [] d = 9 -> "9"

(* One step of the u32 division by ten, on the two 16-bit halves.          *)
DivMod10(id) ==
    LET x == (id[1] % 10) * 65536 + id[2]
    IN  [q |-> <<id[1] \div 10, x \div 10>>, r |-> x % 10]

(* Mutant: the id is formatted after a narrowing cast to 16 bits.          *)
RECURSIVE DecimalLow16(_)
DecimalLow16(id) ==
    IF id[2] < 10 THEN Digit(id[2])
    ELSE DecimalLow16(<<0, id[2] \div 10>>) \o Digit(id[2] % 10)

(* The "{}" of format! applied to a u32: its decimal digits, no padding.   *)
RECURSIVE Decimal(_)
Decimal(id) ==
    IF id[1] = 0 /\ id[2] < 10 THEN Digit(id[2])
    ELSE Decimal(DivMod10(id).q) \o Digit(DivMod10(id).r)

(***************************** line 11, 24, 26 ******************************)
Label(id) == "ticket-" \o Decimal(id)

(* Mutant: the address is built without the satellite-window marker.       *)
UrlNoMarker(id) == "/#/ticket/" \o Decimal(id)

Url(id) == "/?ticketWindow=true#/ticket/" \o Decimal(id)

Title(id) == "Ticket #" \o Decimal(id)

(* Mutant: the builder is given the minimum size as the initial size.      *)
NewWindowSwappedSizes(h, id) ==
    [h |-> h, label |-> Label(id), url |-> Url(id), title |-> Title(id),
     inner_size |-> <<600, 400>>, min_inner_size |-> <<1000, 800>>,
     centered |-> TRUE]

(* The window the builder of lines 21-30 describes; h is the host's handle.*)
NewWindow(h, id) ==
    [h |-> h, label |-> Label(id), url |-> Url(id), title |-> Title(id),
     inner_size |-> <<1000, 800>>, min_inner_size |-> <<600, 400>>,
     centered |-> TRUE]

(***************************** host interface *******************************)
(* What a host call returns: success, or an error whose Display text is    *)
(* the diagnostic.                                                         *)
HostOk == [ok |-> TRUE, display |-> ""]
HostErr(d) == [ok |-> FALSE, display |-> d]
HostOutcomes == {HostOk} \cup { HostErr(d) : d \in Diagnostics }

(* Mutant: the lookup compares the label with the windows' titles.         *)
get_window_by_title(wins, label) == { w \in wins : w.title = label }

(* app.get_webview_window(&label): the live windows carrying that label.   *)
get_webview_window(wins, label) == { w \in wins : w.label = label }

(* e.to_string(): the Display text of the host's error.                    *)
to_string(e) == e.display

Ok == [ok |-> TRUE, msg |-> ""]
Err(m) == [ok |-> FALSE, msg |-> m]

(* Mutant: the error is wrapped in a message of the command's own.         *)
map_err_wrapped(r) ==
    IF r.ok THEN Ok ELSE Err("Failed to open ticket window: " \o to_string(r))

(* .map_err(|e| e.to_string())? applied to the host's answer r, followed   *)
(* by Ok(()): the Result the command returns.                              *)
map_err(r) == IF r.ok THEN Ok ELSE Err(to_string(r))

Call(op, label, h, ret) == [op |-> op, label |-> label, h |-> h, ret |-> ret]

(******************************* actions ************************************)
Init ==
    /\ windows = {}
    /\ focused = NoWindow
    /\ creator = <<>>
    /\ pc = [t \in Tasks |-> "idle"]
    /\ ticket_id = [t \in Tasks |-> <<0, 0>>]
    /\ window_label = [t \in Tasks |-> ""]
    /\ window = [t \in Tasks |-> {}]
    /\ result = [t \in Tasks |-> {}]
    /\ calls = [t \in Tasks |-> <<>>]
    /\ invocations = 0
    /\ greetings = <<>>
    /\ after_failure = [t \in Tasks |-> FALSE]

(* Mutant: the derived label is kept in one process-wide buffer, which     *)
(* every invocation overwrites.                                            *)
InvokeSharedLabel(t, id) ==
    /\ pc[t] \in {"idle", "done"}
    /\ invocations < MaxInvocations
    /\ invocations' = invocations + 1
    /\ ticket_id' = [ticket_id EXCEPT ![t] = id]
    /\ window_label' = [u \in Tasks |-> Label(id)]
    /\ window' = [window EXCEPT ![t] = {}]
    /\ result' = [result EXCEPT ![t] = {}]
    /\ calls' = [calls EXCEPT ![t] = <<>>]
    /\ pc' = [pc EXCEPT ![t] = "lookup"]
    /\ after_failure' = [after_failure EXCEPT ![t] =
           \E u \in Tasks : pc[u] = "done" /\ result[u] # {Ok}]
    /\ UNCHANGED greetings
    /\ UNCHANGED <<windows, focused, creator>>

(* The front end invokes the command: the host schedules task t (line 10)  *)
(* and the label is derived (line 11).                                     *)
Invoke(t, id) ==
    /\ pc[t] \in {"idle", "done"}
    /\ invocations < MaxInvocations
    /\ invocations' = invocations + 1
    /\ ticket_id' = [ticket_id EXCEPT ![t] = id]
    /\ window_label' = [window_label EXCEPT ![t] = Label(id)]
    /\ window' = [window EXCEPT ![t] = {}]
    /\ result' = [result EXCEPT ![t] = {}]
    /\ calls' = [calls EXCEPT ![t] = <<>>]
    /\ pc' = [pc EXCEPT ![t] = "lookup"]
    /\ after_failure' = [after_failure EXCEPT ![t] =
           \E u \in Tasks : pc[u] = "done" /\ result[u] # {Ok}]
    /\ UNCHANGED greetings
    /\ UNCHANGED <<windows, focused, creator>>

(* Mutant: ticket id 0 is rejected as invalid before any host call.        *)
LookupRejectsZero(t) ==
    /\ pc[t] = "lookup"
    /\ LET hits == get_webview_window(windows, window_label[t])
       IN  IF ticket_id[t] = <<0, 0>>
           THEN /\ window' = [window EXCEPT ![t] = {}]
                /\ result' = [result EXCEPT ![t] = {Err("invalid ticket id")}]
                /\ pc' = [pc EXCEPT ![t] = "done"]
           ELSE /\ result' = result
                /\ IF hits = {}
                   THEN /\ window' = [window EXCEPT ![t] = {}]
                        /\ pc' = [pc EXCEPT ![t] = "build"]
                   ELSE \E w \in hits :
                        /\ window' = [window EXCEPT ![t] = {w}]
                        /\ pc' = [pc EXCEPT ![t] = "focus"]
    /\ UNCHANGED <<greetings, after_failure>>
    /\ UNCHANGED <<windows, focused, creator, ticket_id, window_label,
                   calls, invocations>>

(* Mutant: the command keeps its own registry of the windows it built and  *)
(* never removes a destroyed one from it.                                  *)
LookupCached(t) ==
    /\ pc[t] = "lookup"
    /\ LET built == { NewWindow(h, creator[h]) : h \in 1..Len(creator) }
           hits == get_webview_window(built, window_label[t])
       IN  IF hits = {}
           THEN /\ window' = [window EXCEPT ![t] = {}]
                /\ pc' = [pc EXCEPT ![t] = "build"]
           ELSE \E w \in hits :
                /\ window' = [window EXCEPT ![t] = {w}]
                /\ pc' = [pc EXCEPT ![t] = "focus"]
    /\ UNCHANGED <<greetings, after_failure>>
    /\ UNCHANGED <<windows, focused, creator, ticket_id, window_label,
                   result, calls, invocations>>

(* Mutant: a per-label lock is taken at the lookup and held until the      *)
(* invocation returns, so a second invocation for the label waits.         *)
LookupLocked(t) ==
    /\ pc[t] = "lookup"
    /\ \A u \in Tasks \ {t} :
          pc[u] \in {"focus", "build", "return"}
             => window_label[u] # window_label[t]
    /\ LET hits == get_webview_window(windows, window_label[t])
       IN  IF hits = {}
           THEN /\ window' = [window EXCEPT ![t] = {}]
                /\ pc' = [pc EXCEPT ![t] = "build"]
           ELSE \E w \in hits :
                /\ window' = [window EXCEPT ![t] = {w}]
                /\ pc' = [pc EXCEPT ![t] = "focus"]
    /\ UNCHANGED <<greetings, after_failure>>
    /\ UNCHANGED <<windows, focused, creator, ticket_id, window_label,
                   result, calls, invocations>>

(* Mutant: a per-label lock is taken at the lookup and released on the     *)
(* success path only; the `?` of a failed call returns with the lock held. *)
LookupLockLeaked(t) ==
    /\ pc[t] = "lookup"
    /\ \A u \in Tasks \ {t} :
          (\/ pc[u] \in {"focus", "build"}
           \/ pc[u] = "return" /\ ~calls[u][Len(calls[u])].ret.ok
           \/ pc[u] = "done" /\ result[u] # {Ok})
             => window_label[u] # window_label[t]
    /\ LET hits == get_webview_window(windows, window_label[t])
       IN  IF hits = {}
           THEN /\ window' = [window EXCEPT ![t] = {}]
                /\ pc' = [pc EXCEPT ![t] = "build"]
           ELSE \E w \in hits :
                /\ window' = [window EXCEPT ![t] = {w}]
                /\ pc' = [pc EXCEPT ![t] = "focus"]
    /\ UNCHANGED <<greetings, after_failure>>
    /\ UNCHANGED <<windows, focused, creator, ticket_id, window_label,
                   result, calls, invocations>>

(* Mutant: the last error is remembered per label and returned to later   *)
(* invocations for that label without asking the host again.               *)
LookupStickyError(t) ==
    /\ pc[t] = "lookup"
    /\ LET hits == get_webview_window(windows, window_label[t])
           failed == { u \in Tasks \ {t} :
                         /\ pc[u] = "done" /\ result[u] # {Ok}
                         /\ window_label[u] = window_label[t] }
       IN  IF failed # {}
           THEN /\ window' = [window EXCEPT ![t] = {}]
                /\ \E u \in failed : result' = [result EXCEPT ![t] = result[u]]
                /\ pc' = [pc EXCEPT ![t] = "done"]
           ELSE /\ result' = result
                /\ IF hits = {}
                   THEN /\ window' = [window EXCEPT ![t] = {}]
                        /\ pc' = [pc EXCEPT ![t] = "build"]
                   ELSE \E w \in hits :
                        /\ window' = [window EXCEPT ![t] = {w}]
                        /\ pc' = [pc EXCEPT ![t] = "focus"]
    /\ UNCHANGED <<greetings, after_failure>>
    /\ UNCHANGED <<windows, focused, creator, ticket_id, window_label,
                   calls, invocations>>

(* Line 14: if let Some(window) = app.get_webview_window(&window_label).   *)
Lookup(t) ==
    /\ pc[t] = "lookup"
    /\ LET hits == get_webview_window(windows, window_label[t])
       IN  IF hits = {}
           THEN /\ window' = [window EXCEPT ![t] = {}]
                /\ pc' = [pc EXCEPT ![t] = "build"]
           ELSE \E w \in hits :
                /\ window' = [window EXCEPT ![t] = {w}]
                /\ pc' = [pc EXCEPT ![t] = "focus"]
    /\ UNCHANGED <<greetings, after_failure>>
    /\ UNCHANGED <<windows, focused, creator, ticket_id, window_label,
                   result, calls, invocations>>

(* Mutant: the early return of line 17 is missing, so a successful focus   *)
(* falls through to the builder.                                           *)
FocusFallsThrough(t) ==
    /\ pc[t] = "focus"
    /\ \E w \in window[t], r \in HostOutcomes :
        /\ focused' = IF r.ok /\ w \in windows THEN w.h ELSE focused
        /\ calls' = [calls EXCEPT ![t] = Append(@, Call("focus", w.label, w.h, r))]
        /\ pc' = [pc EXCEPT ![t] = IF r.ok THEN "build" ELSE "return"]
    /\ UNCHANGED <<greetings, after_failure>>
    /\ UNCHANGED <<windows, creator, ticket_id, window_label, window,
                   result, invocations>>

(* Mutant: when set_focus fails the command falls back to building the    *)
(* window instead of returning the error.                                  *)
FocusFallbackToBuild(t) ==
    /\ pc[t] = "focus"
    /\ \E w \in window[t], r \in HostOutcomes :
        /\ focused' = IF r.ok /\ w \in windows THEN w.h ELSE focused
        /\ calls' = [calls EXCEPT ![t] = Append(@, Call("focus", w.label, w.h, r))]
        /\ pc' = [pc EXCEPT ![t] = IF r.ok THEN "return" ELSE "build"]
    /\ UNCHANGED <<greetings, after_failure>>
    /\ UNCHANGED <<windows, creator, ticket_id, window_label, window,
                   result, invocations>>

(* Line 16, the call: window.set_focus() on the handle bound at line 14.   *)
(* The host answers Ok or an error.  An Ok on a live window brings it to   *)
(* the foreground.  What the host answers for a handle whose window was    *)
(* destroyed after the lookup is fixed neither by lib.rs nor by the        *)
(* specification: every answer is kept, and none has an effect.            *)
Focus(t) ==
    /\ pc[t] = "focus"
    /\ \E w \in window[t], r \in HostOutcomes :
        /\ focused' = IF r.ok /\ w \in windows THEN w.h ELSE focused
        /\ calls' = [calls EXCEPT ![t] = Append(@, Call("focus", w.label, w.h, r))]
    /\ pc' = [pc EXCEPT ![t] = "return"]
    /\ UNCHANGED <<greetings, after_failure>>
    /\ UNCHANGED <<windows, creator, ticket_id, window_label, window,
                   result, invocations>>

(* Mutant: the window is registered before the build outcome is known and  *)
(* is left behind when the build fails.                                    *)
BuildLeavesWindow(t) ==
    /\ pc[t] = "build"
    /\ \E r \in HostOutcomes :
        LET h == Len(creator) + 1
            w == NewWindow(h, ticket_id[t])
        IN  /\ windows' = windows \cup {w}
            /\ creator' = Append(creator, ticket_id[t])
            /\ focused' = IF r.ok THEN h ELSE focused
            /\ calls' = [calls EXCEPT ![t] =
                   Append(@, Call("build", window_label[t], IF r.ok THEN h ELSE NoWindow, r))]
    /\ pc' = [pc EXCEPT ![t] = "return"]
    /\ UNCHANGED <<greetings, after_failure>>
    /\ UNCHANGED <<ticket_id, window_label, window, result, invocations>>

(* Mutant: a newly built ticket window replaces the ticket windows that    *)
(* are open (one satellite window at a time).                              *)
BuildReplacesOthers(t) ==
    /\ pc[t] = "build"
    /\ \E r \in HostOutcomes :
        LET h == Len(creator) + 1
            w == NewWindow(h, ticket_id[t])
        IN  /\ IF r.ok
               THEN /\ windows' = {w}
                    /\ creator' = Append(creator, ticket_id[t])
                    /\ focused' = h
               ELSE UNCHANGED <<windows, creator, focused>>
            /\ calls' = [calls EXCEPT ![t] =
                   Append(@, Call("build", window_label[t], IF r.ok THEN h ELSE NoWindow, r))]
    /\ pc' = [pc EXCEPT ![t] = "return"]
    /\ UNCHANGED <<greetings, after_failure>>
    /\ UNCHANGED <<ticket_id, window_label, window, result, invocations>>

(* Lines 21-31, the call: WebviewWindowBuilder::new(..)...build().  The    *)
(* host answers Ok, and the window is then live, or an error, and the      *)
(* window set is as it was.  The builder chain makes no focus request and  *)
(* does not switch off the builder's `focused` default, so the host opens  *)
(* the new window in the foreground.                                       *)
Build(t) ==
    /\ pc[t] = "build"
    /\ \E r \in HostOutcomes :
        LET h == Len(creator) + 1
            w == NewWindow(h, ticket_id[t])
        IN  /\ IF r.ok
               THEN /\ windows' = windows \cup {w}
                    /\ creator' = Append(creator, ticket_id[t])
                    /\ focused' = h
               ELSE UNCHANGED <<windows, creator, focused>>
            /\ calls' = [calls EXCEPT ![t] =
                   Append(@, Call("build", window_label[t], IF r.ok THEN h ELSE NoWindow, r))]
    /\ pc' = [pc EXCEPT ![t] = "return"]
    /\ UNCHANGED <<greetings, after_failure>>
    /\ UNCHANGED <<ticket_id, window_label, window, result, invocations>>

(* The `?` of line 16 or 31 and the return of line 17 or 33: the command   *)
(* completes with the error of its host call, or with Ok(()).  Nothing is  *)
(* held between the host's answer and this step, so host calls of other    *)
(* invocations and closes can come in between.                             *)
Return(t) ==
    /\ pc[t] = "return"
    /\ result' = [result EXCEPT ![t] = {map_err(calls[t][Len(calls[t])].ret)}]
    /\ pc' = [pc EXCEPT ![t] = "done"]
    /\ UNCHANGED <<greetings, after_failure>>
    /\ UNCHANGED <<windows, focused, creator, ticket_id, window_label, window,
                   calls, invocations>>

(* The user (or the host) destroys a window; nothing in lib.rs observes it.*)
UserClose(w) ==
    /\ w \in windows
    /\ windows' = windows \ {w}
    /\ focused' = IF focused = w.h THEN NoWindow ELSE focused
    /\ UNCHANGED <<greetings, after_failure>>
    /\ UNCHANGED <<creator, pc, ticket_id, window_label, window, result,
                   calls, invocations>>

(******************************* greet ***************************************)
(* Names the front end passes to greet.                                    *)
Names == { "Ada", "", "Grace Hopper" }

(* Mutant: the name is put after the sentence instead of in its slot.      *)
greet_misplaced(name) == "Hello, ! You've been greeted from Rust!" \o name

(* Line 6: format!("Hello, {}! You've been greeted from Rust!", name).     *)
greet(name) == "Hello, " \o name \o "! You've been greeted from Rust!"

(* Lines 4-7: the greet command answers one call.                          *)
Greet(name) ==
    /\ Len(greetings) < MaxGreets
    /\ greetings' = Append(greetings, [name |-> name, out |-> greet(name)])
    /\ UNCHANGED <<windows, focused, creator, pc, ticket_id, window_label,
                   window, result, calls, invocations, after_failure>>

Next ==
    \/ \E t \in Tasks, id \in TicketIds : Invoke(t, id)
    \/ \E t \in Tasks : Lookup(t)
    \/ \E t \in Tasks : Focus(t)
    \/ \E t \in Tasks : Build(t)
    \/ \E t \in Tasks : Return(t)
    \/ \E w \in windows : UserClose(w)

Spec == Init /\ [][Next]_vars

(* The host's runtime schedules every spawned task fairly: a task that can *)
(* take its next step is not held back for ever.  Nothing obliges the      *)
(* front end to invoke the command or the user to close a window.          *)
Fairness ==
    \A t \in Tasks :
        /\ WF_vars(Lookup(t)) /\ WF_vars(Focus(t)) /\ WF_vars(Build(t))
        /\ WF_vars(Return(t))

(* The window command with at most FairInvocations invocations started.    *)
NextFair ==
    \/ \E t \in Tasks, id \in TicketIds :
          invocations < FairInvocations /\ Invoke(t, id)
    \/ \E t \in Tasks : Lookup(t)
    \/ \E t \in Tasks : Focus(t)
    \/ \E t \in Tasks : Build(t)
    \/ \E t \in Tasks : Return(t)
    \/ \E w \in windows : UserClose(w)

SpecFair == Init /\ [][NextFair]_vars /\ Fairness

(* Both commands of the invoke handler (line 40), with the window commands *)
(* kept to the first GreetInvocations invocations.                         *)
NextGreet ==
    \/ \E name \in Names : Greet(name)
    \/ Next /\ invocations' <= GreetInvocations

SpecGreet == Init /\ [][NextGreet]_vars

(************************* expected values **********************************)
(* The decimal text of each ticket id of the model, written out.           *)
ExpectedDecimal(id) ==
    CASE id = <<0, 0>> -> "0"
      [] id = <<0, 42>> -> "42"
      [] id = <<1, 42>> -> "65578"
      [] id = U32_MAX -> "4294967295"

ExpectedLabel(id) == "ticket-" \o ExpectedDecimal(id)

(* The live windows labelled for ticket id.                                *)
LiveFor(id) == { w \in windows : w.label = ExpectedLabel(id) }

(* The handles of windows that were built and have since been destroyed.   *)
Destroyed == { h \in 1..Len(creator) : \A w \in windows : w.h # h }

(* Task t takes, in this step, the step that leaves position p.            *)
Leaves(t, p) == pc[t] = p /\ pc'[t] # p

(******************************** C1 ****************************************)
(* C1: when a window labelled ticket-<id> is live, an invocation's lookup  *)
(* finds a live window of that label, and the invocation then creates no   *)
(* window and issues exactly one host call, a focus request on the window  *)
(* it found, and returns.                                                  *)
IdempotentFocus ==
    [][\A t \in Tasks :
        /\ (Leaves(t, "lookup") /\ LiveFor(ticket_id[t]) # {}) =>
              /\ pc'[t] = "focus"
              /\ window'[t] # {}
              /\ window'[t] \subseteq LiveFor(ticket_id[t])
              /\ windows' = windows
              /\ calls'[t] = <<>>
        /\ Leaves(t, "focus") =>
              /\ pc'[t] = "return"
              /\ windows' = windows
              /\ creator' = creator
              /\ Len(calls'[t]) = 1
              /\ calls'[t][1].op = "focus"
              /\ \A w \in window[t] :
                    /\ calls'[t][1].h = w.h
                    /\ calls'[t][1].label = ExpectedLabel(ticket_id[t])
        /\ (Leaves(t, "return") /\ window[t] # {}) =>
              /\ pc'[t] = "done"
              /\ windows' = windows
              /\ creator' = creator
              /\ calls'[t] = calls[t]
      ]_vars

(* Two invocations for one id have both focused the one live window of     *)
(* that id, and no second window was built.                                *)
IdempotentFocusWitness ==
    \E t1, t2 \in Tasks :
        /\ t1 # t2
        /\ pc[t1] = "done" /\ pc[t2] = "done"
        /\ ticket_id[t1] = ticket_id[t2]
        /\ window[t1] # {} /\ window[t1] = window[t2]
        /\ window[t1] = LiveFor(ticket_id[t1])
        /\ Len(creator) = 1
        /\ calls[t1][1].op = "focus" /\ calls[t2][1].op = "focus"
        /\ calls[t1][1].h = calls[t2][1].h

(******************************** C2 ****************************************)
(* C2: when no window labelled ticket-<id> is live, the lookup goes on to  *)
(* the builder, and a build that succeeds adds exactly one window, with    *)
(* label ticket-<id>, title "Ticket #<id>", size 1000x800, minimum size    *)
(* 600x400, centered.                                                      *)
FirstCallCreation ==
    [][\A t \in Tasks :
        /\ (Leaves(t, "lookup") /\ LiveFor(ticket_id[t]) = {}) =>
              pc'[t] = "build" /\ windows' = windows
        /\ (Leaves(t, "build") /\ calls'[t][Len(calls'[t])].ret.ok) =>
              \E w \in windows' \ windows :
                 /\ windows' = windows \cup {w}
                 /\ w.label = ExpectedLabel(ticket_id[t])
                 /\ w.title = "Ticket #" \o ExpectedDecimal(ticket_id[t])
                 /\ w.inner_size = <<1000, 800>>
                 /\ w.min_inner_size = <<600, 400>>
                 /\ w.centered
      ]_vars

(* A first invocation for the maximum id has built the only window.        *)
FirstCallCreationWitness ==
    \E t \in Tasks :
        /\ pc[t] = "done" /\ result[t] = {Ok}
        /\ ticket_id[t] = U32_MAX
        /\ calls[t][1].op = "build"
        /\ Cardinality(windows) = 1
        /\ \E w \in windows :
              /\ w.h = calls[t][1].h
              /\ w.title = "Ticket #4294967295"
              /\ w.inner_size = <<1000, 800>>

(******************************** C3 ****************************************)
(* C3: the live window set never holds two windows for one ticket id.      *)
AtMostOneWindowPerTicket ==
    \A w1, w2 \in windows : w1.label = w2.label => w1 = w2

(******************************** C4 ****************************************)
(* C4: whenever an invocation returns success while a window labelled      *)
(* ticket-<id> is live, the focused window at that moment is a window      *)
(* labelled ticket-<id>.  (A window the user has closed before the return  *)
(* is not held against the claim.)                                         *)
FocusedOnCompletion ==
    [][\A t \in Tasks :
        (Leaves(t, "return") /\ pc'[t] = "done" /\ result'[t] = {Ok}
            /\ LiveFor(ticket_id[t])' # {}) =>
            \E w \in windows' :
                w.h = focused' /\ w.label = ExpectedLabel(ticket_id[t])
      ]_vars

(******************************** C5 ****************************************)
(* C5: an invocation whose focus request failed with diagnostic E has      *)
(* returned a failure whose message is exactly E.                          *)
FocusErrorPropagation ==
    \A t \in Tasks :
        (pc[t] = "done" /\ calls[t] # <<>> /\ calls[t][1].op = "focus"
            /\ ~calls[t][1].ret.ok) =>
        \E d \in Diagnostics :
            /\ calls[t][1].ret.display = d
            /\ result[t] = {[ok |-> FALSE, msg |-> d]}

(* A focus request on a live window failed with "E", and "E" was returned. *)
FocusErrorPropagationWitness ==
    \E t \in Tasks :
        /\ pc[t] = "done"
        /\ window[t] # {} /\ window[t] \subseteq windows
        /\ calls[t] # <<>> /\ calls[t][1].op = "focus"
        /\ calls[t][1].ret = [ok |-> FALSE, display |-> "E"]
        /\ result[t] = {[ok |-> FALSE, msg |-> "E"]}

(******************************** C6 ****************************************)
(* C6: a build request that fails with diagnostic E makes the invocation   *)
(* return a failure whose message is exactly E, and leaves the live window *)
(* set as it was.                                                          *)
BuildErrorPropagation ==
    [][\A t \in Tasks :
        /\ (Leaves(t, "build") /\ Len(calls'[t]) = 1
                /\ ~calls'[t][1].ret.ok) =>
              /\ pc'[t] = "return"
              /\ calls'[t][1].ret.display \in Diagnostics
              /\ windows' = windows
              /\ LiveFor(ticket_id[t])' = LiveFor(ticket_id[t])
        /\ (Leaves(t, "return") /\ Len(calls[t]) = 1
                /\ calls[t][1].op = "build" /\ ~calls[t][1].ret.ok) =>
              /\ pc'[t] = "done"
              /\ \E d \in Diagnostics :
                    /\ calls[t][1].ret.display = d
                    /\ result'[t] = {[ok |-> FALSE, msg |-> d]}
              /\ windows' = windows
      ]_vars

(* With no window live, a build failed with "window is not focusable",     *)
(* that text was returned, and there is still no window.                   *)
BuildErrorPropagationWitness ==
    \E t \in Tasks :
        /\ pc[t] = "done"
        /\ calls[t] # <<>> /\ calls[t][1].op = "build"
        /\ calls[t][1].ret = [ok |-> FALSE, display |-> "window is not focusable"]
        /\ result[t] = {[ok |-> FALSE, msg |-> "window is not focusable"]}
        /\ windows = {} /\ creator = <<>>

(******************************** C7 ****************************************)
(* C7: for every ticket id, an invocation that has returned a failure      *)
(* issued a host call that failed, and an invocation none of whose host    *)
(* calls failed has returned success.                                      *)
ErrorsOnlyFromHost ==
    \A t \in Tasks :
        pc[t] = "done" =>
            /\ Cardinality(result[t]) = 1
            /\ \A r \in result[t] :
                  /\ ~r.ok => \E i \in 1..Len(calls[t]) : ~calls[t][i].ret.ok
                  /\ (\A i \in 1..Len(calls[t]) : calls[t][i].ret.ok) => r.ok

(* Invocations for id 0 and for the maximum id have both returned success. *)
ErrorsOnlyFromHostWitness ==
    \E t1, t2 \in Tasks :
        /\ pc[t1] = "done" /\ ticket_id[t1] = <<0, 0>> /\ result[t1] = {Ok}
        /\ pc[t2] = "done" /\ ticket_id[t2] = U32_MAX /\ result[t2] = {Ok}
        /\ Len(calls[t1]) = 1 /\ Len(calls[t2]) = 1

(******************************** C8 ****************************************)
(* C8: when a window for the id was built and destroyed and no window of   *)
(* the label is live, the lookup finds nothing and the invocation goes on  *)
(* to issue one build request for the label ticket-<id>, and no focus      *)
(* request.                                                                *)
RecreationAfterDestruction ==
    [][\A t \in Tasks :
        /\ (Leaves(t, "lookup") /\ LiveFor(ticket_id[t]) = {}
              /\ \E h \in Destroyed : creator[h] = ticket_id[t]) =>
              /\ pc'[t] = "build"
              /\ window'[t] = {}
              /\ calls'[t] = <<>>
        /\ Leaves(t, "build") =>
              /\ Len(calls'[t]) = 1
              /\ calls'[t][1].op = "build"
              /\ calls'[t][1].label = ExpectedLabel(ticket_id[t])
              /\ calls'[t][1].h \notin Destroyed
      ]_vars

(* One task ran both invocations there have been, one after the other, for *)
(* id 42: the window of the first was destroyed, and the second has built  *)
(* a new one, which is the only live window.                               *)
RecreationAfterDestructionWitness ==
    \E t \in Tasks :
        /\ pc[t] = "done" /\ result[t] = {Ok}
        /\ ticket_id[t] = <<0, 42>>
        /\ calls[t][1].op = "build" /\ calls[t][1].h = 2
        /\ creator = << <<0, 42>>, <<0, 42>> >>
        /\ Destroyed = {1}
        /\ \A u \in Tasks \ {t} : pc[u] = "idle"
        /\ invocations = 2

(******************************** C9 ****************************************)
(* C9: every window built for ticket id has the content address            *)
(* "/?ticketWindow=true#/ticket/<id>" with the decimal id of its label     *)
(* ticket-<id>.                                                            *)
UrlAgreesWithLabel ==
    \A w \in windows :
        /\ w.label = "ticket-" \o ExpectedDecimal(creator[w.h])
        /\ w.url = "/?ticketWindow=true#/ticket/" \o ExpectedDecimal(creator[w.h])

(* The window for id 42 is live with the address of the scenario.          *)
UrlAgreesWithLabelWitness ==
    \E w \in windows :
        /\ creator[w.h] = <<0, 42>>
        /\ w.label = "ticket-42"
        /\ w.url = "/?ticketWindow=true#/ticket/42"

(******************************** C10 ***************************************)
(* Ids on which the derivation is compared pairwise.                       *)
InjectivityIds ==
    TicketIds \cup { <<hi, lo>> : hi \in {0, 1, 10, 65535},
                                  lo \in (0..20) \cup {100, 65534, 65535} }

LabelsDiffer ==
    \A id1, id2 \in InjectivityIds : id1 # id2 => Label(id1) # Label(id2)

(* C10: different ids have different labels, and the window a lookup by    *)
(* the label of id1 returns was built for id1.                             *)
LabelInjectivity ==
    /\ LabelsDiffer
    /\ \A t \in Tasks : \A w \in window[t] : creator[w.h] = ticket_id[t]

(* Windows for 42 and for 65578 (equal in their low 16 bits) are live, and *)
(* a lookup for 65578 has returned the one built for 65578.                *)
LabelInjectivityWitness ==
    /\ \E w \in windows : creator[w.h] = <<0, 42>>
    /\ \E t \in Tasks :
          /\ ticket_id[t] = <<1, 42>>
          /\ pc[t] = "focus"
          /\ \E w \in window[t] : w \in windows /\ creator[w.h] = <<1, 42>>

(******************************** C11 ***************************************)
ExpectedGreeting(name) ==
    CASE name = "Ada" -> "Hello, Ada! You've been greeted from Rust!"
      [] name = "" -> "Hello, ! You've been greeted from Rust!"
      [] name = "Grace Hopper" ->
             "Hello, Grace Hopper! You've been greeted from Rust!"

(* C11: every greet call returns "Hello, <name>! You've been greeted from  *)
(* Rust!", leaves the window set, the focus and the tasks as they were,    *)
(* and returns what every earlier call with the same name returned.        *)
GreetingFormat ==
    [][Len(greetings') > Len(greetings) =>
        LET g == greetings'[Len(greetings')]
        IN  /\ g.out = ExpectedGreeting(g.name)
            /\ \A i \in 1..Len(greetings) :
                  /\ greetings'[i] = greetings[i]
                  /\ greetings[i].name = g.name => greetings[i].out = g.out
            /\ UNCHANGED <<windows, focused, creator, pc, ticket_id,
                           window_label, window, result, calls, invocations,
                           after_failure>>
      ]_vars

(* greet("Ada") was answered twice, with the sentence of the scenario,     *)
(* while a ticket window is live.                                          *)
GreetingFormatWitness ==
    /\ Len(greetings) = 2
    /\ greetings[1].name = "Ada" /\ greetings[2].name = "Ada"
    /\ greetings[1].out = "Hello, Ada! You've been greeted from Rust!"
    /\ greetings[2].out = greetings[1].out
    /\ windows # {}

PastLookup == { t \in Tasks : pc[t] \in {"focus", "build"} }

(* The step is serialized: a host call of an invocation (its lookup, its   *)
(* set_focus or its build) is taken only while no other invocation stands  *)
(* between its lookup and its focus or build.  Invocations being           *)
(* scheduled and user closes are not constrained.                          *)
SerializedStep ==
    \A t \in Tasks :
        (pc[t] \in {"lookup", "focus", "build"} /\ pc'[t] # pc[t]) =>
            PastLookup \subseteq {t}

(* What serialized steps maintain: at most one invocation is past its      *)
(* lookup, no two live windows share a label, and an invocation about to   *)
(* build holds a label that is not live.                                   *)
SerialInv ==
    /\ Cardinality(PastLookup) <= 1
    /\ \A w1, w2 \in windows : w1.label = w2.label => w1 = w2
    /\ \A t \in Tasks :
         pc[t] = "build" =>
            /\ window_label[t] = ExpectedLabel(ticket_id[t])
            /\ LiveFor(ticket_id[t]) = {}

(* C13: as long as every invocation runs its lookup and its focus or build *)
(* with no host call of another invocation in between, the window set      *)
(* never holds two windows of one label, and no build request is issued    *)
(* for a label that is live at that moment.  The code itself takes the two *)
(* calls as separate steps; the property holds initially and is kept by    *)
(* every serialized step, whatever invocations and closes surround it.     *)
SerializedCorrectness ==
    /\ SerialInv
    /\ [][(SerialInv /\ SerializedStep) =>
            /\ SerialInv'
            /\ \A t \in Tasks :
                 (Len(calls'[t]) > Len(calls[t])
                     /\ calls'[t][Len(calls'[t])].op = "build") =>
                 /\ LiveFor(ticket_id[t]) = {}
                 /\ calls'[t][Len(calls'[t])].label
                        = ExpectedLabel(ticket_id[t])
         ]_vars

(* Two invocations for id 42 were pending together and ran one after the   *)
(* other: the first built the window, the second then looked up, found it  *)
(* and focused it; one window of the label is live.                        *)
SerializedCorrectnessWitness ==
    \E t1, t2 \in Tasks :
        /\ t1 # t2
        /\ ticket_id[t1] = <<0, 42>> /\ ticket_id[t2] = <<0, 42>>
        /\ pc[t1] = "done" /\ pc[t2] = "done"
        /\ calls[t1][1].op = "build" /\ calls[t1][1].ret.ok
        /\ calls[t2][1].op = "focus" /\ calls[t2][1].h = calls[t1][1].h
        /\ invocations = 2
        /\ Cardinality(windows) = 1 /\ Len(creator) = 1
        /\ SerialInv

(******************************** C14 ***************************************)
(* The live windows whose label is not that of ticket id.                  *)
OtherWindows(wins, id) == { w \in wins : w.label # ExpectedLabel(id) }

(* C14: a step of an invocation for id removes no window, leaves the       *)
(* windows of other labels and their attributes as they were, and moves    *)
(* the focus, if at all, to a window labelled ticket-<id>.                 *)
FrameOtherTickets ==
    [][\A t \in Tasks :
        pc'[t] # pc[t] =>
            /\ OtherWindows(windows', ticket_id'[t])
                  = OtherWindows(windows, ticket_id'[t])
            /\ windows \subseteq windows'
            /\ Len(creator') >= Len(creator)
            /\ \A h \in 1..Len(creator) : creator'[h] = creator[h]
            /\ focused' # focused =>
                  \E w \in windows' :
                     w.h = focused' /\ w.label = ExpectedLabel(ticket_id'[t])
      ]_vars

(* The window of the maximum id, built first, is live and unchanged after  *)
(* one invocation for 42 built a window and another for 42 failed.         *)
FrameOtherTicketsWitness ==
    \E t1, t2 \in Tasks :
        /\ t1 # t2
        /\ pc[t1] = "done" /\ ticket_id[t1] = <<0, 42>> /\ result[t1] = {Ok}
        /\ calls[t1][1].op = "build" /\ calls[t1][1].h = 2
        /\ pc[t2] = "done" /\ ticket_id[t2] = <<0, 42>>
        /\ \E r \in result[t2] : ~r.ok
        /\ \E w \in windows :
              /\ w.h = 1
              /\ w.label = "ticket-4294967295"
              /\ w.title = "Ticket #4294967295"
              /\ w.url = "/?ticketWindow=true#/ticket/4294967295"
              /\ w.inner_size = <<1000, 800>>
              /\ w.min_inner_size = <<600, 400>>

(******************************** C15 ***************************************)
(* C15: an invocation makes one lookup and then exactly one window-        *)
(* affecting host call, a focus request if the lookup found a window and a *)
(* build request otherwise, and returns right after that call whether it   *)
(* succeeded or failed; nothing is issued after the return.                *)
OneLookupOneCall ==
    [][\A t \in Tasks :
        /\ Leaves(t, "lookup") =>
              /\ pc'[t] = (IF window'[t] # {} THEN "focus" ELSE "build")
              /\ calls[t] = <<>> /\ calls'[t] = <<>>
        /\ Leaves(t, "focus") =>
              /\ pc'[t] = "return"
              /\ Len(calls'[t]) = 1 /\ calls'[t][1].op = "focus"
        /\ Leaves(t, "build") =>
              /\ pc'[t] = "return"
              /\ Len(calls'[t]) = 1 /\ calls'[t][1].op = "build"
        /\ Leaves(t, "return") =>
              /\ pc'[t] = "done"
              /\ calls'[t] = calls[t]
              /\ Cardinality(result'[t]) = 1
        /\ (pc[t] = "done" /\ pc'[t] = "done") =>
              calls'[t] = calls[t] /\ result'[t] = result[t]
        /\ Leaves(t, "done") => pc'[t] = "lookup" /\ calls'[t] = <<>>
      ]_vars

(* A focus request failed and the invocation returned with that one call   *)
(* in its log; another invocation's build failed and it returned likewise. *)
OneLookupOneCallWitness ==
    \E t1, t2 \in Tasks :
        /\ pc[t1] = "done" /\ window[t1] # {}
        /\ calls[t1] = <<Call("focus", "ticket-0", 1, HostErr("E"))>>
        /\ pc[t2] = "done" /\ window[t2] = {}
        /\ Len(calls[t2]) = 1 /\ calls[t2][1].op = "build"
        /\ ~calls[t2][1].ret.ok
        /\ Len(creator) = 1

(******************************** C16 ***************************************)
(* Task t has been started and has not returned.                           *)
Running(t) == pc[t] \in {"lookup", "focus", "build", "return"}

(* C16: an invocation that has been started can always take its next      *)
(* step, whatever the other invocations are doing, and under fair          *)
(* scheduling it eventually returns a success or a failure.                *)
EveryInvocationTerminates ==
    /\ [](\A t \in Tasks :
            /\ pc[t] = "lookup" => ENABLED Lookup(t)
            /\ pc[t] = "focus" => ENABLED Focus(t)
            /\ pc[t] = "build" => ENABLED Build(t)
            /\ pc[t] = "return" => ENABLED Return(t))
    /\ \A t \in Tasks :
          Running(t) ~> (pc[t] = "done" /\ Cardinality(result[t]) = 1)

(* All the tasks are running at once, two of them for the same id.         *)
EveryInvocationTerminatesWitness ==
    /\ \A t \in Tasks : Running(t)
    /\ \E t1, t2 \in Tasks :
          /\ t1 # t2 /\ ticket_id[t1] = ticket_id[t2]
          /\ pc[t1] = "build" /\ pc[t2] = "lookup"

(******************************** C17 ***************************************)
(* Some invocation has returned a failure and its result is still there.   *)
FailureVisible == \E u \in Tasks : pc[u] = "done" /\ result[u] # {Ok}

(* C17: after an invocation has returned a failure, a new invocation is    *)
(* still accepted, an invocation started after the failure can take        *)
(* each of its steps, and it returns success if its own host call          *)
(* succeeds.                                                               *)
FailureNotSticky ==
    /\ \A t \in Tasks :
          (FailureVisible /\ pc[t] \in {"idle", "done"}
              /\ invocations < MaxInvocations) =>
          ENABLED (\E id \in TicketIds : Invoke(t, id))
    /\ \A t \in Tasks :
          after_failure[t] =>
             /\ pc[t] = "lookup" => ENABLED Lookup(t)
             /\ pc[t] = "focus" => ENABLED Focus(t)
             /\ pc[t] = "build" => ENABLED Build(t)
             /\ pc[t] = "return" => ENABLED Return(t)
             /\ pc[t] = "done" =>
                   /\ Len(calls[t]) = 1
                   /\ calls[t][1].ret.ok => result[t] = {Ok}

(* An invocation for 42 failed in its build; an invocation for 42 started  *)
(* after that failure has built the window and returned success.           *)
FailureNotStickyWitness ==
    \E t \in Tasks :
        /\ after_failure[t]
        /\ pc[t] = "done" /\ result[t] = {Ok}
        /\ ticket_id[t] = <<0, 42>>
        /\ calls[t][1].op = "build"
        /\ \E u \in Tasks \ {t} :
              /\ pc[u] = "done" /\ ticket_id[u] = <<0, 42>>
              /\ result[u] = {[ok |-> FALSE, msg |-> "E"]}
              /\ calls[u][1].op = "build"
        /\ invocations = 2

(******************************** C18 ***************************************)
(* The tasks that have been given an invocation.                           *)
Started == { t \in Tasks : pc[t] # "idle" }

(* Every invocation so far is the first of its task, the invocations are   *)
(* for pairwise different ids, no host call has failed and no window has   *)
(* been destroyed.                                                         *)
DistinctIdsNoFailure ==
    /\ invocations = Cardinality(Started)
    /\ \A t1, t2 \in Started : t1 # t2 => ticket_id[t1] # ticket_id[t2]
    /\ \A t \in Started : \A i \in 1..Len(calls[t]) : calls[t][i].ret.ok
    /\ Destroyed = {}

(* What the host shows of the window built for ticket id.                  *)
ExpectedWindow(id) ==
    [label |-> ExpectedLabel(id),
     url |-> "/?ticketWindow=true#/ticket/" \o ExpectedDecimal(id),
     title |-> "Ticket #" \o ExpectedDecimal(id)]

(* C18: under any interleaving of invocations for pairwise different ids,  *)
(* with no window at the start and no host failure, every invocation that  *)
(* has returned built its window and returned success, and the window set  *)
(* holds exactly one window for each id whose build request has been       *)
(* answered (each id whose invocation has returned, and each whose         *)
(* invocation is about to) -- a set that does not depend on the order in   *)
(* which they ran.                                                         *)
DifferentIdsDoNotInterfere ==
    DistinctIdsNoFailure =>
        LET returned == { t \in Started : pc[t] = "done" }
            answered == { t \in Started : pc[t] \in {"return", "done"} }
        IN  /\ \A t \in returned : result[t] = {Ok}
            /\ \A t \in answered :
                  Len(calls[t]) = 1 /\ calls[t][1].op = "build"
            /\ { [label |-> w.label, url |-> w.url, title |-> w.title] :
                     w \in windows }
                  = { ExpectedWindow(ticket_id[t]) : t \in answered }
            /\ Cardinality(windows) = Cardinality(answered)

(* Every task has run one invocation, for pairwise different ids, none     *)
(* failed, and there is one window per task.                               *)
DifferentIdsDoNotInterfereWitness ==
    /\ DistinctIdsNoFailure
    /\ \A t \in Tasks : pc[t] = "done" /\ result[t] = {Ok}
    /\ Cardinality(windows) = NumTasks
    /\ \E w \in windows : w.label = "ticket-65578"
    /\ \E w \in windows : w.label = "ticket-42"

====
